---- MODULE Spec2Model ----
(***************************************************************************)
(* A model of the GraphQL client of merico-dev/graphql: the query compiler *)
(* (query.go: ConstructQuery, ConstructMutation, queryArguments,           *)
(* writeArgumentType, writeQuery) and the client calls (graphql.go:        *)
(* Client.Query with its response fold, Client.Mutate, Client.do).         *)
(*                                                                         *)
(* A Go string is a sequence of one-character strings, so that formatting, *)
(* searching and sorting are computed character by character.              *)
(***************************************************************************)
EXTENDS Integers, Sequences, FiniteSets, TLC

VARIABLES
    v,          \* the shape handed to the compiler / client (a reflect.Type)
    variables,  \* the caller's variable mapping (map[string]interface{})
    selOut,     \* result of query(v, variables)
    argsOut,    \* result of queryArguments(variables)
    queryOut,   \* result of ConstructQuery(v, variables)
    mutationOut,\* result of ConstructMutation(v, variables)
    pc,         \* position of the client call: "idle", "done"
    call,       \* which client method ran: "none", "Query", "Mutate"
    sent,       \* the request handed to the transport by Client.do
    resp,       \* the response the transport gave back
    rawData,    \* Client.Query's rawData map after the fold loop
    todo,       \* keys of rawData the range of the fold loop has yet to produce
    populated,  \* whether UnmarshalGraphQL filled the caller's shape
    ret         \* what the client method returned

vars == <<v, variables, selOut, argsOut, queryOut, mutationOut,
          pc, call, sent, resp, rawData, todo, populated, ret>>

----------------------------------------------------------------------------
(* Bounds of the model. *)

\* longest repetition group drawn for a variable, and the largest number of
\* name__i keys a response carries
MaxRep == 2

----------------------------------------------------------------------------
(* Go strings. *)

Ascii ==
    [c \in {"!", "$", "(", ")", ",", "0", "1", "2", "3", "4", "5", "6", "7",
            "8", "9", ":", "@", "B", "I", "[", "]", "_", "a", "b", "d", "e",
            "f", "i", "l", "m", "n", "o", "r", "s", "t", "x", "z", "{", "}"} |->
        CASE c = "!" -> 33 [] c = "$" -> 36 [] c = "(" -> 40 [] c = ")" -> 41
          [] c = "," -> 44 [] c = "0" -> 48 [] c = "1" -> 49 [] c = "2" -> 50
          [] c = "3" -> 51 [] c = "4" -> 52 [] c = "5" -> 53 [] c = "6" -> 54
          [] c = "7" -> 55 [] c = "8" -> 56 [] c = "9" -> 57 [] c = ":" -> 58
          [] c = "@" -> 64 [] c = "B" -> 66 [] c = "I" -> 73 [] c = "[" -> 91
          [] c = "]" -> 93 [] c = "_" -> 95 [] c = "a" -> 97 [] c = "b" -> 98
          [] c = "d" -> 100 [] c = "e" -> 101 [] c = "f" -> 102
          [] c = "i" -> 105 [] c = "l" -> 108 [] c = "m" -> 109
          [] c = "n" -> 110 [] c = "o" -> 111 [] c = "r" -> 114
          [] c = "s" -> 115 [] c = "t" -> 116 [] c = "x" -> 120
          [] c = "z" -> 122 [] c = "{" -> 123 [] c = "}" -> 125]

\* Go's s < t on strings: byte-wise comparison, a proper prefix sorts first.
RECURSIVE StringLess(_, _)
StringLess(s, t) ==
    IF t = <<>> THEN FALSE
    ELSE IF s = <<>> THEN TRUE
    ELSE IF Ascii[Head(s)] # Ascii[Head(t)] THEN Ascii[Head(s)] < Ascii[Head(t)]
    ELSE StringLess(Tail(s), Tail(t))

\* strconv of a non-negative int in base 10, as fmt's %d prints it.
RECURSIVE Itoa(_)
Itoa(n) ==
    LET digit == <<"0", "1", "2", "3", "4", "5", "6", "7", "8", "9">>
    IN  IF n < 10 THEN <<digit[n + 1]>>
        ELSE Itoa(n \div 10) \o <<digit[(n % 10) + 1]>>

\* strings.Index(s, "__"): 0-based index of the first "__", or -1.
IndexDunder(s) ==
    LET hits == {i \in 1..(Len(s) - 1) : s[i] = "_" /\ s[i + 1] = "_"}
    IN  IF hits = {} THEN -1
        ELSE (CHOOSE i \in hits : \A j \in hits : i <= j) - 1

\* strings.IndexAny(s, chars): 0-based index of the first character of s that
\* is in chars, or -1.
IndexAny(s, chars) ==
    LET hits == {i \in 1..Len(s) : s[i] \in chars}
    IN  IF hits = {} THEN -1
        ELSE (CHOOSE i \in hits : \A j \in hits : i <= j) - 1

\* strings.ReplaceAll(s, old, new) for a one-character old.
RECURSIVE ReplaceAll(_, _, _)
ReplaceAll(s, old, new) ==
    IF s = <<>> THEN <<>>
    ELSE (IF Head(s) = old THEN new ELSE <<Head(s)>>)
            \o ReplaceAll(Tail(s), old, new)

\* s[:n]
Prefix(s, n) == SubSeq(s, 1, n)

\* the orders in which a range loop can produce the keys of a map
Orders(S) ==
    {o \in [1..Cardinality(S) -> S] : \A i, j \in DOMAIN o : i # j => o[i] # o[j]}

----------------------------------------------------------------------------
(* reflect.Type, Go values and maps. *)

Scalar(name)  == [kind |-> "Scalar", name |-> name]
PtrTo(t)      == [kind |-> "Ptr", name |-> <<>>, elem |-> t]
SliceOf(t)    == [kind |-> "Slice", name |-> <<>>, elem |-> t]
ArrayOf(t)    == [kind |-> "Array", name |-> <<>>, elem |-> t]
MapOf(t)      == [kind |-> "Map", name |-> <<>>, elem |-> t]
InterfaceType == [kind |-> "Interface", name |-> <<>>]
\* reflect.TypeOf(nil): the nil reflect.Type, on which every method panics
NilType       == [kind |-> "nil"]
\* the dynamic type of a []map[string]interface{} value
GroupType     == SliceOf(MapOf(InterfaceType))

\* an interface{} value: its dynamic type, its payload and, for a
\* []map[string]interface{}, its sub-maps
Val(t, x)   == [t |-> t, val |-> x, subs |-> <<>>]
Group(subs) == [t |-> GroupType, val |-> 0, subs |-> subs]
NilVal      == [t |-> NilType, val |-> 0, subs |-> <<>>]

\* what a function writing to a bytes.Buffer leaves behind: the text, or a
\* run-time panic
Ok(text)  == [panic |-> FALSE, out |-> text]
Panicked  == [panic |-> TRUE, out |-> <<>>]
Cat(a, b) == IF a.panic \/ b.panic THEN Panicked
             ELSE [panic |-> FALSE, out |-> a.out \o b.out]

----------------------------------------------------------------------------
(* query.go: the argument encoder. *)

RECURSIVE WriteArgumentType(_, _)
WriteArgumentType(t, value) ==
    IF t.kind = "nil" THEN Panicked
    ELSE IF t.kind = "Ptr" THEN WriteArgumentType(t.elem, FALSE)
    ELSE LET body ==
                IF t.kind \in {"Slice", "Array"}
                THEN Cat(Cat(Ok(<<"[">>), WriteArgumentType(t.elem, TRUE)),
                         Ok(<<"]">>))
                ELSE Ok(IF t.name = <<"s", "t", "r", "i", "n", "g">>
                        THEN <<"I", "D">> ELSE t.name)
         IN  Cat(body, Ok(IF value THEN <<"!">> ELSE <<>>))

\* sort.Strings
RECURSIVE InsertString(_, _)
InsertString(k, sorted) ==
    IF sorted = <<>> THEN <<k>>
    ELSE IF StringLess(k, Head(sorted)) THEN <<k>> \o sorted
    ELSE <<Head(sorted)>> \o InsertString(k, Tail(sorted))

RECURSIVE SortStrings(_)
SortStrings(keys) ==
    IF keys = <<>> THEN <<>>
    ELSE InsertString(Head(keys), SortStrings(Tail(keys)))

RECURSIVE WriteArguments(_, _)
WriteArguments(m, keys) ==
    IF keys = <<>> THEN Ok(<<>>)
    ELSE Cat(Cat(Ok(<<"$">> \o Head(keys) \o <<":">>),
                 WriteArgumentType(m[Head(keys)].t, TRUE)),
             WriteArguments(m, Tail(keys)))

\* faulty variant of QueryArguments: the keys are left in range order
QueryArgumentsUnsorted(m, order) == WriteArguments(m, order)

\* order: the order in which the range loop produced the keys of m
QueryArguments(m, order) == WriteArguments(m, SortStrings(order))

----------------------------------------------------------------------------
(* query.go: the query compiler. *)

\* a struct tag lookup: f.Tag.Lookup(key) gives (value, ok)
Tag(text) == [ok |-> TRUE, value |-> text]
NoTag     == [ok |-> FALSE, value |-> <<>>]

\* reflect.StructField: f.Name, f.Anonymous, f.Type and the two tags read
Field(name, graphql, extend, anonymous, type) ==
    [name |-> name, graphql |-> graphql, extend |-> extend,
     anonymous |-> anonymous, type |-> type]

\* a struct type; unmarshaler: *t implements json.Unmarshaler
StructOf(fields)  == [kind |-> "Struct", name |-> <<>>, unmarshaler |-> FALSE,
                      fields |-> fields]
UnmarshalerStruct == [kind |-> "Struct", name |-> <<>>, unmarshaler |-> TRUE,
                      fields |-> <<>>]

\* ident.ParseMixedCaps(name).ToLowerCamelCase() for an identifier whose first
\* word is one capital followed by lower-case letters: Foo -> foo,
\* BarBaz -> barBaz
LowerCamelCase(name) ==
    LET lower == [c \in {"A", "B", "F", "I", "T", "W"} |->
                    CASE c = "A" -> "a" [] c = "B" -> "b" [] c = "F" -> "f"
                      [] c = "I" -> "i" [] c = "T" -> "t" [] c = "W" -> "w"]
    IN  IF name = <<>> THEN <<>>
        ELSE IF Head(name) \in DOMAIN lower
             THEN <<lower[Head(name)]>> \o Tail(name)
             ELSE name

\* variables[k].([]map[string]interface{}) succeeds
IsGroup(m, k) == k \in DOMAIN m /\ m[k].t = GroupType

\* the text graphqlValue of a field (lines 130-145)
GraphqlValue(f) ==
    IF f.anonymous /\ ~f.graphql.ok THEN <<>>
    ELSE IF f.graphql.ok THEN f.graphql.value
    ELSE LowerCamelCase(f.name)

\* the text graphqlVar of a field (lines 131-145)
GraphqlVar(f) ==
    IF f.anonymous /\ ~f.graphql.ok THEN <<>>
    ELSE IF f.graphql.ok
         THEN LET index == IndexAny(f.graphql.value,
                                    {"(", ":", "[", "$", "!", "@"})
              IN  IF index = -1 THEN f.graphql.value
                  ELSE Prefix(f.graphql.value, index)
    ELSE f.graphql.value

\* fmt.Sprintf(`%s__%d:`, graphqlVar, i)
CopyAlias(graphqlVar, i) ==
    graphqlVar \o <<"_", "_">> \o Itoa(i) \o <<":">>

\* faulty variant of CopyText: the copy's index is left out of the prefix
CopyTextNoIndex(graphqlValue, graphqlVar, i) ==
    ReplaceAll(graphqlValue, "$", <<"$">> \o graphqlVar \o <<"_", "_">>)

\* strings.ReplaceAll(graphqlValue, `$`, fmt.Sprintf(`$%s__%d__`, graphqlVar, i))
CopyText(graphqlValue, graphqlVar, i) ==
    ReplaceAll(graphqlValue, "$",
               <<"$">> \o graphqlVar \o <<"_", "_">> \o Itoa(i) \o <<"_", "_">>)

RECURSIVE WriteQuery(_, _, _)
RECURSIVE WriteCopies(_, _, _, _)
RECURSIVE WriteFields(_, _, _)

\* one copy of a repeat-expansion field (lines 152-159)
WriteCopy(f, i, m) ==
    LET inlineField == f.anonymous /\ ~f.graphql.ok
    IN  Cat(Cat(Ok(IF i # 0 THEN <<",">> ELSE <<>>),
                Ok(CopyAlias(GraphqlVar(f), i))),
            Cat(Ok(IF ~inlineField
                   THEN CopyText(GraphqlValue(f), GraphqlVar(f), i)
                   ELSE <<>>),
                WriteQuery(f.type, inlineField, m)))

\* the loop of lines 151-160, from copy i on
WriteCopies(f, i, times, m) ==
    IF i >= times THEN Ok(<<>>)
    ELSE Cat(WriteCopy(f, i, m), WriteCopies(f, i + 1, times, m))

\* the body of the field loop for one field (lines 127-167)
WriteField(f, m) ==
    LET inlineField == f.anonymous /\ ~f.graphql.ok
    IN  IF f.extend.ok /\ f.extend.value = <<"t", "r", "u", "e">>
        THEN IF ~IsGroup(m, GraphqlVar(f)) THEN Panicked
             ELSE WriteCopies(f, 0, Len(m[GraphqlVar(f)].subs), m)
        ELSE Cat(Ok(IF ~inlineField THEN GraphqlValue(f) ELSE <<>>),
                 WriteQuery(f.type, inlineField, m))

\* the field loop of lines 123-169, from field i (1-based) on
WriteFields(fields, i, m) ==
    IF i > Len(fields) THEN Ok(<<>>)
    ELSE Cat(Cat(Ok(IF i # 1 THEN <<",">> ELSE <<>>), WriteField(fields[i], m)),
             WriteFields(fields, i + 1, m))

WriteQuery(t, inline, m) ==
    IF t.kind \in {"Ptr", "Slice"} THEN WriteQuery(t.elem, FALSE, m)
    ELSE IF t.kind = "Struct"
         THEN IF t.unmarshaler THEN Ok(<<>>)
              ELSE Cat(Cat(Ok(IF ~inline THEN <<"{">> ELSE <<>>),
                           WriteFields(t.fields, 1, m)),
                       Ok(IF ~inline THEN <<"}">> ELSE <<>>))
    ELSE Ok(<<>>)

\* query(v, variables)
query(t, m) == WriteQuery(t, FALSE, m)

\* fmt.Sprintf(`%s__%d__%s`, k, index, subKey)
FlatKey(k, index, subKey) ==
    k \o <<"_", "_">> \o Itoa(index) \o <<"_", "_">> \o subKey

\* faulty variant of GroupEntries: the group's own key is kept as well
GroupEntriesKeepingGroup(m, k) ==
    LET g     == m[k].subs
        pairs == UNION {{<<i, s>> : s \in DOMAIN g[i]} : i \in 1..Len(g)}
        keys  == {FlatKey(k, p[1] - 1, p[2]) : p \in pairs}
    IN  [key \in keys \cup {k} |->
            IF key = k THEN m[k]
            ELSE LET p == CHOOSE q \in pairs : FlatKey(k, q[1] - 1, q[2]) = key
                 IN  g[p[1]][p[2]]]

\* the entries lines 21-25 store for the repetition group m[k]; for one k the
\* keys of distinct (index, subKey) pairs are distinct strings
GroupEntries(m, k) ==
    LET g     == m[k].subs
        pairs == UNION {{<<i, s>> : s \in DOMAIN g[i]} : i \in 1..Len(g)}
        keys  == {FlatKey(k, p[1] - 1, p[2]) : p \in pairs}
    IN  [key \in keys |->
            LET p == CHOOSE q \in pairs : FlatKey(k, q[1] - 1, q[2]) = key
            IN  g[p[1]][p[2]]]

\* the loop of lines 19-29 over the keys in the order the range produced
\* them; a later store to a key replaces an earlier one
RECURSIVE NewVariables(_, _, _)
NewVariables(m, order, acc) ==
    IF order = <<>> THEN acc
    ELSE LET k == Head(order)
             stored == IF IsGroup(m, k) THEN GroupEntries(m, k)
                       ELSE (k :> m[k])
         IN  NewVariables(m, Tail(order), stored @@ acc)

\* ConstructQuery(v, variables): the document and the returned mapping.
\* order: the order of the range over variables; argOrder: the order of
\* queryArguments' range over the new mapping
ConstructQuery(t, m, order, argOrder) ==
    LET queryText == query(t, m)
    IN  IF Cardinality(DOMAIN m) > 0
        THEN LET newVariables == NewVariables(m, order, <<>>)
                 doc == Cat(Cat(Ok(<<"q", "u", "e", "r", "y", "(">>),
                                QueryArguments(newVariables, argOrder)),
                            Cat(Ok(<<")">>), queryText))
             IN  [panic |-> doc.panic, doc |-> doc.out,
                  vars |-> IF doc.panic THEN <<>> ELSE newVariables]
        ELSE [panic |-> queryText.panic, doc |-> queryText.out,
              vars |-> IF queryText.panic THEN <<>> ELSE m]

\* faulty variant of ConstructMutation: without variables the keyword is left
\* out, as ConstructQuery leaves it out
ConstructMutationBare(t, m, argOrder) ==
    LET queryText == query(t, m)
    IN  IF Cardinality(DOMAIN m) > 0
        THEN Cat(Cat(Ok(<<"m", "u", "t", "a", "t", "i", "o", "n", "(">>),
                     QueryArguments(m, argOrder)),
                 Cat(Ok(<<")">>), queryText))
        ELSE queryText

\* ConstructMutation(v, variables)
ConstructMutation(t, m, argOrder) ==
    LET queryText == query(t, m)
    IN  IF Cardinality(DOMAIN m) > 0
        THEN Cat(Cat(Ok(<<"m", "u", "t", "a", "t", "i", "o", "n", "(">>),
                     QueryArguments(m, argOrder)),
                 Cat(Ok(<<")">>), queryText))
        ELSE Cat(Ok(<<"m", "u", "t", "a", "t", "i", "o", "n">>), queryText)

----------------------------------------------------------------------------
(* graphql.go: the client. *)

\* a value json.Unmarshal stores in an interface{}: a []interface{} for a JSON
\* array, anything else (number, string, object, null) told apart by val
JList(items) == [kind |-> "list", items |-> items, val |-> 0]
JOther(n)    == [kind |-> "other", items |-> <<>>, val |-> n]

\* out.Data, a *json.RawMessage: nil, a JSON object, or JSON text that is no
\* object
NilData         == [kind |-> "nil", obj |-> <<>>]
ObjectData(obj) == [kind |-> "object", obj |-> obj]
NonObjectData   == [kind |-> "nonobject", obj |-> <<>>]

\* what the transport did: failed (ctxhttp.Post error, non-200 status, body
\* that does not decode), or answered with data and an errors array
Response(failed, data, errors) ==
    [failed |-> failed, data |-> data, errors |-> errors]

\* Client.do's two results (lines 111-132)
DoData(r) == IF r.failed THEN NilData ELSE r.data
DoErr(r)  == IF r.failed THEN "transport error"
             ELSE IF r.errors THEN "errors" ELSE "nil"

\* one iteration of the loop of lines 54-65, for the key k the range produced
FoldKey(m, k) ==
    LET index == IndexDunder(k)
    IN  IF index = -1 THEN [panic |-> FALSE, m |-> m]
        ELSE LET target == Prefix(k, index)
                 rest   == [x \in DOMAIN m \ {k} |-> m[x]]
             IN  IF target \in DOMAIN m
                 THEN IF m[target].kind # "list"
                      THEN [panic |-> TRUE, m |-> m]
                      ELSE [panic |-> FALSE,
                            m |-> [rest EXCEPT ![target] =
                                      JList(Append(m[target].items, m[k]))]]
                 ELSE [panic |-> FALSE,
                       m |-> (target :> JList(<<m[k]>>)) @@ rest]

----------------------------------------------------------------------------
(* Inputs: shapes, variable mappings and transport responses. *)

Int_     == Scalar(<<"I", "n", "t">>)
Boolean_ == Scalar(<<"B", "o", "o", "l", "e", "a", "n">>)
String_  == Scalar(<<"s", "t", "r", "i", "n", "g">>)

kId    == <<"i", "d">>
kN     == <<"n">>
kItems == <<"i", "t", "e", "m", "s">>
kTitle == <<"t", "i", "t", "l", "e">>
true_  == <<"t", "r", "u", "e">>

Plain(name, type) == Field(name, NoTag, NoTag, FALSE, type)

\* struct { Id Int }
Item == StructOf(<<Plain(<<"I", "d">>, Int_)>>)

\* Items []Item `graphql:"<text>" graphql-extend:"true"`
Repeat(text) == Field(<<"I", "t", "e", "m", "s">>, Tag(text), Tag(true_), FALSE,
                      SliceOf(Item))

itemsById   == <<"i", "t", "e", "m", "s", "(", "i", "d", ":", "$", "i", "d", ")">>
itemsByIdN  == <<"i", "t", "e", "m", "s", "(", "i", "d", ":", "$", "i", "d", ",",
                 "n", ":", "$", "n", ")">>
nodeById    == <<"n", "o", "d", "e", "(", "i", "d", ":", "$", "i", "d", ")">>

FooField    == Plain(<<"F", "o", "o">>, Int_)
BarBazField == Plain(<<"B", "a", "r", "B", "a", "z">>, PtrTo(Boolean_))
TitleField  == Plain(<<"T", "i", "t", "l", "e">>, String_)

\* struct { Foo Int; BarBaz *Boolean }
ScalarsShape == StructOf(<<FooField, BarBazField>>)

Shapes ==
    << ScalarsShape,
       StructOf(<<Repeat(itemsById), TitleField>>),
       StructOf(<<TitleField, Repeat(itemsById)>>),
       StructOf(<<Repeat(itemsById)>>),
       StructOf(<<FooField, Repeat(itemsByIdN), TitleField>>),
       StructOf(<<Repeat(kItems)>>),
       \* an embedded struct, spliced into its parent
       StructOf(<<Field(<<"B", "a", "s", "e">>, NoTag, NoTag, TRUE,
                        StructOf(<<FooField, BarBazField>>)), TitleField>>),
       \* an embedded scalar: nothing to splice
       StructOf(<<FooField, Field(<<"I", "n", "t">>, NoTag, NoTag, TRUE, Int_)>>),
       \* a custom scalar implementing json.Unmarshaler
       StructOf(<<Plain(<<"W", "h", "e", "n">>, UnmarshalerStruct), FooField>>),
       \* an override without repetition
       StructOf(<<Field(<<"I", "t", "e", "m">>, Tag(nodeById), NoTag, FALSE, Item)>>),
       \* graphql-extend:"false"
       StructOf(<<Field(<<"I", "t", "e", "m", "s">>, Tag(kItems),
                        Tag(<<"f", "a", "l", "s", "e">>), FALSE, SliceOf(Item))>>),
       StructOf(<<Plain(<<"I", "t", "e", "m", "s">>, SliceOf(Item)), TitleField>>),
       StructOf(<<Plain(<<"I", "t", "e", "m", "s">>, ArrayOf(Item)), TitleField>>),
       PtrTo(ScalarsShape),
       SliceOf(ScalarsShape),
       ArrayOf(ScalarsShape) >>

\* variable mappings without a repetition group
BaseMaps ==
    << <<>>,
       (kId :> Val(Int_, 7)),
       (<<"b">> :> Val(Int_, 1)) @@ (<<"a">> :> Val(PtrTo(Boolean_), 2))
            @@ (<<"a", "b">> :> Val(String_, 3)),
       (<<"B">> :> Val(SliceOf(Int_), 1)) @@ (<<"a", "_">> :> Val(PtrTo(String_), 2))
            @@ (<<"a">> :> Val(ArrayOf(PtrTo(Int_)), 3)),
       (<<"b">> :> Val(PtrTo(SliceOf(Int_)), 1))
            @@ (<<"a">> :> Val(PtrTo(PtrTo(Int_)), 2)),
       (<<"x">> :> NilVal),
       (<<"x">> :> Val(MapOf(InterfaceType), 1)),
       (<<"x">> :> Val(SliceOf(MapOf(Int_)), 1)),
       \* a plain variable named like a flattened key of the group items
       (FlatKey(kItems, 0, kId) :> Val(String_, 5)),
       (<<"x">> :> Val(SliceOf(Int_), 1)),
       (<<"x">> :> Val(String_, 1)),
       (<<"x">> :> Val(PtrTo(String_), 1)) >>

\* the i-th sub-map (1-based) of a repetition group with the sub-keys ks
SubMap(i, ks) ==
    [k \in ks |-> IF k = kId THEN Val(Int_, i) ELSE Val(String_, 10 + i)]

\* nothing, or the variable items bound to a repetition group
GroupMaps ==
    {<<>>} \cup {(kItems :> Group([i \in 1..n |-> SubMap(i, ks)])) :
                    n \in 0..MaxRep, ks \in {{kId}, {kId, kN}}}

\* fmt.Sprintf(`%s__%d`, name, i): the alias writeQuery gives copy i
ItemKey(i) == kItems \o <<"_", "_">> \o Itoa(i)

\* a response object with the keys items__0 .. items__(n-1), and possibly the
\* key items itself, a key title and a key items__0__id
ResponseObject(n, target, title, extra) ==
    LET copies == [k \in {ItemKey(i) : i \in 0..(n - 1)} |->
                     JOther(1 + CHOOSE i \in 0..(n - 1) : ItemKey(i) = k)]
        held   == IF target = "other" THEN (kItems :> JOther(90))
                  ELSE IF target = "list" THEN (kItems :> JList(<<JOther(91)>>))
                  ELSE <<>>
        named  == IF title THEN (kTitle :> JOther(92)) ELSE <<>>
        deep   == IF extra THEN (FlatKey(kItems, 0, kId) :> JOther(93)) ELSE <<>>
    IN  copies @@ held @@ named @@ deep

ResponseObjects ==
    {ResponseObject(n, target, title, extra) :
        n \in 0..MaxRep, target \in {"absent", "other", "list"},
        title \in BOOLEAN, extra \in BOOLEAN}

Responses ==
    {Response(TRUE, NilData, FALSE)}
    \cup {Response(FALSE, d, e) :
            d \in {NilData, NonObjectData} \cup {ObjectData(o) : o \in ResponseObjects},
            e \in BOOLEAN}

\* what the client is called with
ClientInputs ==
    << <<PtrTo(ScalarsShape), <<>> >>,
       <<PtrTo(Shapes[10]), BaseMaps[2]>>,
       <<PtrTo(ScalarsShape), BaseMaps[3]>>,
       <<PtrTo(ScalarsShape), BaseMaps[6]>>,
       <<PtrTo(ScalarsShape), BaseMaps[7]>>,
       <<PtrTo(ScalarsShape), BaseMaps[8]>>,
       <<PtrTo(Shapes[2]), <<>> >>,
       <<PtrTo(Shapes[7]), BaseMaps[4]>>,
       <<Shapes[12], <<>> >> >>
    \o [n \in 1..(MaxRep + 1) |->
          <<PtrTo(Shapes[2]), (kItems :> Group([i \in 1..(n - 1) |-> SubMap(i, {kId})]))>>]

----------------------------------------------------------------------------
(* The state machines. *)

NotRun    == [done |-> FALSE, panic |-> FALSE, out |-> <<>>]
Ran(r)    == [done |-> TRUE, panic |-> r.panic, out |-> r.out]
NotBuilt  == [done |-> FALSE, panic |-> FALSE, doc |-> <<>>, vars |-> <<>>]
Built(c)  == [done |-> TRUE, panic |-> c.panic, doc |-> c.doc, vars |-> c.vars]

NoRequest == [made |-> FALSE, query |-> <<>>, variables |-> <<>>]
Request(text, m) == [made |-> TRUE, query |-> text, variables |-> m]
NoResponse == Response(FALSE, NilData, FALSE)

\* some order of the set S, and its reverse
RECURSIVE SomeOrder(_)
SomeOrder(set) ==
    IF set = {} THEN <<>>
    ELSE LET x == CHOOSE y \in set : TRUE
         IN  <<x>> \o SomeOrder(set \ {x})

Reverse(s) == [i \in 1..Len(s) |-> s[Len(s) + 1 - i]]

\* the range orders drawn for the mapping ConstructQuery builds
TwoOrders(set) == {SomeOrder(set), Reverse(SomeOrder(set))}

ClientIdle ==
    /\ call = "none"
    /\ sent = NoRequest
    /\ resp = NoResponse
    /\ rawData = <<>>
    /\ todo = {}
    /\ populated = FALSE
    /\ ret = "none"

CompilerIdle ==
    /\ selOut = NotRun
    /\ argsOut = NotRun
    /\ queryOut = NotBuilt
    /\ mutationOut = NotRun

clientVars   == <<pc, call, sent, resp, rawData, todo, populated, ret>>
compilerVars == <<selOut, argsOut, queryOut, mutationOut>>

(* The compiler's functions applied to a shape and a variable mapping. *)

InitCompile ==
    /\ \E s \in DOMAIN Shapes, b \in DOMAIN BaseMaps, g \in GroupMaps :
          /\ v = Shapes[s]
          /\ variables = g @@ BaseMaps[b]
    /\ CompilerIdle
    /\ pc = "compile"
    /\ ClientIdle

RunQuery ==
    /\ pc = "compile"
    /\ ~selOut.done
    /\ selOut' = Ran(query(v, variables))
    /\ UNCHANGED <<v, variables, argsOut, queryOut, mutationOut, clientVars>>

RunQueryArguments ==
    /\ pc = "compile"
    /\ ~argsOut.done
    /\ \E order \in Orders(DOMAIN variables) :
          argsOut' = Ran(QueryArguments(variables, order))
    /\ UNCHANGED <<v, variables, selOut, queryOut, mutationOut, clientVars>>

RunConstructQuery ==
    /\ pc = "compile"
    /\ ~queryOut.done
    /\ \E order \in Orders(DOMAIN variables) :
          \E argOrder \in TwoOrders(DOMAIN NewVariables(variables, order, <<>>)) :
             queryOut' = Built(ConstructQuery(v, variables, order, argOrder))
    /\ UNCHANGED <<v, variables, selOut, argsOut, mutationOut, clientVars>>

RunConstructMutation ==
    /\ pc = "compile"
    /\ ~mutationOut.done
    /\ \E argOrder \in Orders(DOMAIN variables) :
          mutationOut' = Ran(ConstructMutation(v, variables, argOrder))
    /\ UNCHANGED <<v, variables, selOut, argsOut, queryOut, clientVars>>

NextCompile ==
    \/ RunQuery
    \/ RunQueryArguments
    \/ RunConstructQuery
    \/ RunConstructMutation

SpecCompile == InitCompile /\ [][NextCompile]_vars

(* The client: one call of Client.Query or Client.Mutate. *)

Init ==
    /\ \E c \in DOMAIN ClientInputs :
          /\ v = ClientInputs[c][1]
          /\ variables = ClientInputs[c][2]
    /\ CompilerIdle
    /\ pc = "idle"
    /\ ClientIdle

\* Client.Query up to the fold loop (lines 38-53)
ClientQuery ==
    /\ pc = "idle"
    /\ call' = "Query"
    /\ \E order \in Orders(DOMAIN variables), r \in Responses :
        \E argOrder \in TwoOrders(DOMAIN NewVariables(variables, order, <<>>)) :
          LET c == ConstructQuery(v, variables, order, argOrder)
          IN  IF c.panic
              THEN /\ pc' = "done"
                   /\ ret' = "panic"
                   /\ UNCHANGED <<sent, resp, rawData, todo>>
              ELSE /\ sent' = Request(c.doc, c.vars)
                   /\ resp' = r
                   /\ IF DoData(r).kind = "nil"
                      THEN /\ pc' = "done"
                           /\ ret' = DoErr(r)
                           /\ UNCHANGED <<rawData, todo>>
                      ELSE IF DoData(r).kind = "nonobject"
                      THEN /\ pc' = "done"
                           /\ ret' = "json error"
                           /\ UNCHANGED <<rawData, todo>>
                      ELSE /\ pc' = "fold"
                           /\ rawData' = DoData(r).obj
                           /\ todo' = DOMAIN DoData(r).obj
                           /\ UNCHANGED ret
    /\ UNCHANGED <<v, variables, compilerVars, populated>>

\* one iteration of the fold loop (lines 54-65). The range produces every key
\* the map held when the loop began exactly once, in any order: a key is only
\* ever deleted in its own iteration. A key stored during the loop may be
\* produced too; it is a target key, holds no "__", and its iteration does
\* nothing.
FoldStep ==
    /\ pc = "fold"
    /\ \E k \in todo :
          LET f == FoldKey(rawData, k)
          IN  IF f.panic
              THEN /\ pc' = "done"
                   /\ ret' = "panic"
                   /\ UNCHANGED <<rawData, todo>>
              ELSE /\ rawData' = f.m
                   /\ todo' = todo \ {k}
                   /\ UNCHANGED <<pc, ret>>
    /\ UNCHANGED <<v, variables, compilerVars, call, sent, resp, populated>>

\* Client.Query after the loop (lines 66-77); ok: UnmarshalGraphQL succeeded
QueryReturn ==
    /\ pc = "fold"
    /\ todo = {}
    /\ \E ok \in BOOLEAN :
          /\ populated' = ok
          /\ ret' = IF ok THEN DoErr(resp) ELSE "UnmarshalGraphQL error"
    /\ pc' = "done"
    /\ UNCHANGED <<v, variables, compilerVars, call, sent, resp, rawData, todo>>

\* Client.Mutate (lines 83-95); ok: UnmarshalGraphQL succeeded
ClientMutate ==
    /\ pc = "idle"
    /\ call' = "Mutate"
    /\ pc' = "done"
    /\ \E argOrder \in Orders(DOMAIN variables), r \in Responses, ok \in BOOLEAN :
          LET d == ConstructMutation(v, variables, argOrder)
          IN  IF d.panic
              THEN /\ ret' = "panic"
                   /\ UNCHANGED <<sent, resp, populated>>
              ELSE /\ sent' = Request(d.out, variables)
                   /\ resp' = r
                   /\ IF DoData(r).kind = "nil"
                      THEN /\ ret' = DoErr(r)
                           /\ UNCHANGED populated
                      ELSE /\ populated' = ok
                           /\ ret' = IF ok THEN DoErr(r)
                                     ELSE "UnmarshalGraphQL error"
    /\ UNCHANGED <<v, variables, compilerVars, rawData, todo>>

Next ==
    \/ ClientQuery
    \/ FoldStep
    \/ QueryReturn
    \/ ClientMutate

Spec == Init /\ [][Next]_vars

----------------------------------------------------------------------------
(* Text helpers of the properties. *)

RECURSIVE Concat(_)
Concat(parts) ==
    IF parts = <<>> THEN <<>> ELSE Head(parts) \o Concat(Tail(parts))

RECURSIVE Join(_, _)
Join(parts, sep) ==
    IF parts = <<>> THEN <<>>
    ELSE IF Len(parts) = 1 THEN parts[1]
    ELSE parts[1] \o sep \o Join(Tail(parts), sep)

\* sub occurs in s
Contains(s, sub) ==
    \E i \in 0..(Len(s) - Len(sub)) : SubSeq(s, i + 1, i + Len(sub)) = sub

\* a comes before b in the lexicographic order of their characters
LexBefore(a, b) ==
    \E n \in 0..Len(a) :
        /\ n <= Len(b)
        /\ \A i \in 1..n : a[i] = b[i]
        /\ \/ n = Len(a) /\ n < Len(b)
           \/ n < Len(a) /\ n < Len(b) /\ Ascii[a[n + 1]] < Ascii[b[n + 1]]

----------------------------------------------------------------------------
(* C5: the argument encoder. *)

\* the types the claim speaks of: named scalars, pointers to and lists of them
RECURSIVE Nameable(_)
Nameable(t) ==
    \/ t.kind = "Scalar"
    \/ t.kind \in {"Ptr", "Slice", "Array"} /\ Nameable(t.elem)

\* the rendering the claim states
RECURSIVE Rendering(_, _)
Rendering(t, required) ==
    LET mark == IF required THEN <<"!">> ELSE <<>>
    IN  CASE t.kind = "Ptr" -> Rendering(t.elem, FALSE)
          [] t.kind \in {"Slice", "Array"} ->
                <<"[">> \o Rendering(t.elem, TRUE) \o <<"]">> \o mark
          [] t.kind = "Scalar" ->
                (IF t.name = String_.name THEN <<"I", "D">> ELSE t.name) \o mark

\* C5: for a mapping of nameable values, whatever the order of the range over
\* the mapping, queryArguments gives the segments $name:Type of all
\* variables, in lexicographic order of name, with no separator; a required
\* scalar is Name!, a pointer its referent without "!", a list [Elem]
\* followed by its own "!", and string is ID.
C5_ArgumentsSortedAndTyped ==
    (argsOut.done /\ \A k \in DOMAIN variables : Nameable(variables[k].t))
    => /\ ~argsOut.panic
       /\ \E ks \in Orders(DOMAIN variables) :
            /\ \A i, j \in DOMAIN ks : i < j => LexBefore(ks[i], ks[j])
            /\ argsOut.out =
                 Concat([i \in DOMAIN ks |->
                           <<"$">> \o ks[i] \o <<":">>
                              \o Rendering(variables[ks[i]].t, TRUE)])
       /\ (variables = (<<"x">> :> Val(SliceOf(Int_), 1)) =>
             argsOut.out = <<"$", "x", ":", "[", "I", "n", "t", "!", "]", "!">>)
       /\ (variables = (<<"x">> :> Val(String_, 1)) =>
             argsOut.out = <<"$", "x", ":", "I", "D", "!">>)
       /\ (variables = (<<"x">> :> Val(PtrTo(String_), 1)) =>
             argsOut.out = <<"$", "x", ":", "I", "D">>)

\* three variables out of order, a list, a pointer and a string among them:
\* $B:[Int!]!$a:[Int]!$a_:ID
C5_Witness ==
    /\ argsOut.done
    /\ variables = BaseMaps[4]
    /\ argsOut.out = <<"$", "B", ":", "[", "I", "n", "t", "!", "]", "!",
                       "$", "a", ":", "[", "I", "n", "t", "]", "!",
                       "$", "a", "_", ":", "I", "D">>

----------------------------------------------------------------------------
(* C3: repetition expansion. *)

SpecialChars == {"(", ":", "[", "$", "!", "@"}

\* the override text up to the first special character
VariableName(text) ==
    LET n == CHOOSE k \in 0..Len(text) :
                /\ \A i \in 1..k : text[i] \notin SpecialChars
                /\ k = Len(text) \/ text[k + 1] \in SpecialChars
    IN  SubSeq(text, 1, n)

\* the override text with every $ replaced by $name__i__
Substituted(text, name, i) ==
    Concat([j \in 1..Len(text) |->
              IF text[j] = "$"
              THEN <<"$">> \o name \o <<"_", "_">> \o Itoa(i) \o <<"_", "_">>
              ELSE <<text[j]>>])

\* f is marked repeat-expansion, carries an override and its variable is bound
\* to a repetition group
IsRepeatField(f, m) ==
    /\ f.extend = Tag(true_)
    /\ f.graphql.ok
    /\ IsGroup(m, VariableName(f.graphql.value))

\* the N copies the claim states for a repeat-expansion field
RepeatedCopies(f, m) ==
    LET name == VariableName(f.graphql.value)
        n    == Len(m[name].subs)
    IN  Join([c \in 1..n |->
                name \o <<"_", "_">> \o Itoa(c - 1) \o <<":">>
                   \o Substituted(f.graphql.value, name, c - 1)
                   \o WriteQuery(f.type, FALSE, m).out],
             <<",">>)

\* C3: in the selection set writeQuery emits for a struct, the place of every
\* repeat-expansion field bound to a group of length N holds exactly the N
\* copies v__i:<override with $ -> $v__i__><subtype>, i = 0..N-1, joined by
\* ","; the other fields are as writeQuery writes them, one "," before every
\* field but the first.
C3_RepetitionExpansion ==
    (selOut.done /\ ~selOut.panic /\ v.kind = "Struct")
    => selOut.out =
          <<"{">>
          \o Join([j \in DOMAIN v.fields |->
                     IF IsRepeatField(v.fields[j], variables)
                     THEN RepeatedCopies(v.fields[j], variables)
                     ELSE WriteField(v.fields[j], variables).out],
                  <<",">>)
          \o <<"}">>

\* a field with two $ in its override, expanded over a group of two
C3_Witness ==
    /\ selOut.done
    /\ ~selOut.panic
    /\ v = Shapes[5]
    /\ IsGroup(variables, kItems)
    /\ Len(variables[kItems].subs) = 2
    /\ Contains(selOut.out,
                <<"i", "t", "e", "m", "s", "_", "_", "1", ":", "i", "t", "e", "m",
                  "s", "(", "i", "d", ":", "$", "i", "t", "e", "m", "s", "_", "_",
                  "1", "_", "_", "i", "d", ",", "n", ":", "$", "i", "t", "e", "m",
                  "s", "_", "_", "1", "_", "_", "n", ")", "{", "i", "d", "}">>)

----------------------------------------------------------------------------
(* C4: the variable mapping ConstructQuery returns. *)

\* the flat key name__index__subKey
FlatName(name, index, subKey) ==
    Concat(<<name, <<"_", "_">>, Itoa(index), <<"_", "_">>, subKey>>)

GroupNames(m) == {k \in DOMAIN m : m[k].t = GroupType}
PlainNames(m) == DOMAIN m \ GroupNames(m)

\* (name, index, subKey) for every entry of every repetition group, 0-based
GroupSlots(m) ==
    UNION {UNION {{<<k, i - 1, s>> : s \in DOMAIN m[k].subs[i]} :
                    i \in 1..Len(m[k].subs)} : k \in GroupNames(m)}

SlotName(slot) == FlatName(slot[1], slot[2], slot[3])

\* the variable names the header query(...) of a document declares: the text
\* between each "$" and the next ":" before the first ")"
DeclaredNames(doc) ==
    IF Len(doc) < 6 \/ SubSeq(doc, 1, 6) # <<"q", "u", "e", "r", "y", "(">>
    THEN {}
    ELSE LET close == CHOOSE i \in 1..Len(doc) :
                         doc[i] = ")" /\ \A j \in 1..(i - 1) : doc[j] # ")"
         IN  {SubSeq(doc, i + 1, j - 1) :
                <<i, j>> \in {p \in (1..close) \X (1..close) :
                                /\ doc[p[1]] = "$"
                                /\ p[1] < p[2]
                                /\ doc[p[2]] = ":"
                                /\ \A x \in (p[1] + 1)..(p[2] - 1) : doc[x] # ":"}}

\* what the claim says of the mapping ConstructQuery returns
RewrittenAsClaimed(m, out) ==
    /\ \A slot \in GroupSlots(m) :
          /\ SlotName(slot) \in DOMAIN out.vars
          /\ out.vars[SlotName(slot)] = m[slot[1]].subs[slot[2] + 1][slot[3]]
    /\ \A k \in PlainNames(m) : k \in DOMAIN out.vars /\ out.vars[k] = m[k]
    /\ \A k \in GroupNames(m) : k \notin DOMAIN out.vars
    /\ DOMAIN out.vars = {SlotName(slot) : slot \in GroupSlots(m)} \cup PlainNames(m)
    /\ DeclaredNames(out.doc) = DOMAIN out.vars
    /\ (GroupNames(m) = {} => out.vars = m)

\* no flat key of a group entry is also the key of a plain variable, of a
\* group or of another group entry
NoKeyClash(m) ==
    /\ \A a, b \in GroupSlots(m) : SlotName(a) = SlotName(b) => a = b
    /\ \A a \in GroupSlots(m) : SlotName(a) \notin DOMAIN m

\* C4 as stated: for every variable mapping the returned mapping holds every
\* group entry under name__i__k, every plain variable under its own key, no
\* group name and nothing else, and the header declares exactly its keys.
C4_RewrittenForEveryMapping ==
    (queryOut.done /\ ~queryOut.panic)
    => RewrittenAsClaimed(variables, queryOut)

\* C4 amended: the same, for every variable mapping in which no flat key
\* name__i__k coincides with the key of another variable or group entry.
C4_RewrittenWithoutKeyClash ==
    (queryOut.done /\ ~queryOut.panic /\ NoKeyClash(variables))
    => RewrittenAsClaimed(variables, queryOut)

\* a group of two sub-maps with two sub-keys each beside a plain variable
C4_Witness ==
    /\ queryOut.done
    /\ ~queryOut.panic
    /\ NoKeyClash(variables)
    /\ PlainNames(variables) = {kId}
    /\ GroupNames(variables) = {kItems}
    /\ Cardinality(GroupSlots(variables)) = 4
    /\ queryOut.vars[FlatName(kItems, 1, kN)] = Val(String_, 12)

----------------------------------------------------------------------------
(* C6: the selection set of a struct. *)

\* the members of a sequence that are not empty, in order
RECURSIVE NonEmpty(_)
NonEmpty(parts) ==
    IF parts = <<>> THEN <<>>
    ELSE (IF Head(parts) = <<>> THEN <<>> ELSE <<Head(parts)>>)
            \o NonEmpty(Tail(parts))

\* C6: the selection set of a struct that is not a custom scalar is "{", the
\* non-empty field emissions in declared order joined by single ",", and "}";
\* it holds none of ",,", "{," and ",}".
C6_NonEmptyEmissionsJoined ==
    (selOut.done /\ ~selOut.panic /\ v.kind = "Struct" /\ ~v.unmarshaler)
    => /\ selOut.out =
            <<"{">>
            \o Join(NonEmpty([j \in DOMAIN v.fields |->
                                WriteField(v.fields[j], variables).out]),
                    <<",">>)
            \o <<"}">>
       /\ ~Contains(selOut.out, <<",", ",">>)
       /\ ~Contains(selOut.out, <<"{", ",">>)
       /\ ~Contains(selOut.out, <<",", "}">>)

----------------------------------------------------------------------------
(* C10: wrappers in the query compiler. *)

\* t with every fixed-size array type in it read as a slice type
RECURSIVE ArraysAsSlices(_)
ArraysAsSlices(t) ==
    CASE t.kind \in {"Ptr", "Slice"} -> [t EXCEPT !.elem = ArraysAsSlices(t.elem)]
      [] t.kind = "Array" -> SliceOf(ArraysAsSlices(t.elem))
      [] t.kind = "Struct" ->
            [t EXCEPT !.fields =
                [j \in DOMAIN t.fields |->
                    [t.fields[j] EXCEPT !.type = ArraysAsSlices(t.fields[j].type)]]]
      [] OTHER -> t

\* C10: compiling a pointer to T, a slice of T or a fixed-size array of T
\* gives the compilation of T with inline false, so a shape compiles to the
\* same text when its arrays are slices instead.
C10_WrappersCompileAsReferent ==
    selOut.done
    => /\ v.kind \in {"Ptr", "Slice", "Array"}
            => selOut = Ran(WriteQuery(v.elem, FALSE, variables))
       /\ selOut = Ran(query(ArraysAsSlices(v), variables))

----------------------------------------------------------------------------
(* C1, C2: the response fold of Client.Query. *)

HasDunder(k) == Contains(k, <<"_", "_">>)

\* the part of a key before its first "__"
TargetOf(k) ==
    LET n == CHOOSE i \in 0..Len(k) :
                /\ ~HasDunder(SubSeq(k, 1, i + 1))
                /\ SubSeq(k, i + 1, i + 2) = <<"_", "_">>
    IN  SubSeq(k, 1, n)

\* Client.Query got a JSON object back and has returned
QueryFoldedObject ==
    /\ pc = "done"
    /\ call = "Query"
    /\ sent.made
    /\ ~resp.failed
    /\ resp.data.kind = "object"

\* the response answers an expansion of the group bound to items: it holds
\* the keys items__0 .. items__(N-1), N the length of the group, and no other
\* key with "__", and no key items
AnswersExpansion ==
    /\ IsGroup(variables, kItems)
    /\ {k \in DOMAIN resp.data.obj : HasDunder(k)}
         = {ItemKey(i) : i \in 0..(Len(variables[kItems].subs) - 1)}
    /\ kItems \notin DOMAIN resp.data.obj

\* C1: folding the response to an N-repetition expansion leaves under items
\* the N values of items__0 .. items__(N-1) in that order, whatever the order
\* of the range over the response's keys (for N = 0, no items or none under
\* the key).
C1_FoldKeepsIndexOrder ==
    (QueryFoldedObject /\ AnswersExpansion)
    => LET n == Len(variables[kItems].subs)
       IN  /\ ret # "panic"
           /\ IF n = 0
              THEN kItems \in DOMAIN rawData => rawData[kItems] = JList(<<>>)
              ELSE /\ kItems \in DOMAIN rawData
                   /\ rawData[kItems] =
                        JList([i \in 1..n |-> resp.data.obj[ItemKey(i - 1)]])

\* C2: the fold of every response object completes; afterwards no key holds
\* "__", every key without "__" that is no target is as it was, and every
\* target key holds a sequence: the sequence it held before, if it held one,
\* followed by the values of its suffixed keys.
C2_FoldCompletes ==
    QueryFoldedObject
    => LET obj      == resp.data.obj
           suffixed == {k \in DOMAIN obj : HasDunder(k)}
           targets  == {TargetOf(k) : k \in suffixed}
       IN  /\ ret # "panic"
           /\ \A k \in DOMAIN rawData : ~HasDunder(k)
           /\ DOMAIN rawData = (DOMAIN obj \ suffixed) \cup targets
           /\ \A k \in DOMAIN rawData \ targets : rawData[k] = obj[k]
           /\ \A t \in targets :
                LET before == IF t \in DOMAIN obj /\ obj[t].kind = "list"
                              THEN obj[t].items ELSE <<>>
                    mine   == {k \in suffixed : TargetOf(k) = t}
                IN  \E o \in Orders(mine) :
                       rawData[t] = JList(before \o [i \in DOMAIN o |-> obj[o[i]]])

----------------------------------------------------------------------------
(* C7: ConstructMutation beside ConstructQuery. *)

MutationKeyword == <<"m", "u", "t", "a", "t", "i", "o", "n">>
QueryKeyword    == <<"q", "u", "e", "r", "y">>

\* Client.Mutate handed a request to the transport for a mapping without a
\* repetition group
MutateSentPlain ==
    /\ pc = "done"
    /\ call = "Mutate"
    /\ sent.made
    /\ GroupNames(variables) = {}

\* the document ConstructQuery builds for the same shape and mapping
QueryDocument ==
    ConstructQuery(v, variables, SomeOrder(DOMAIN variables),
                   SomeOrder(DOMAIN variables)).doc

\* a document with the leading keyword query, if it has one, replaced
AsMutation(doc) ==
    IF Len(doc) >= 5 /\ SubSeq(doc, 1, 5) = QueryKeyword
    THEN MutationKeyword \o SubSeq(doc, 6, Len(doc))
    ELSE doc

SortedArguments == QueryArguments(variables, SomeOrder(DOMAIN variables)).out
SelectionSet    == query(v, variables).out

\* C7 as stated: the mutation document is the query document with mutation
\* for query: mutation(<sorted args>)<selection-set> with variables,
\* <selection-set> without; the mapping is sent as given.
C7_MutationIsQueryWithKeyword ==
    MutateSentPlain
    => /\ sent.query = AsMutation(QueryDocument)
       /\ sent.query = IF DOMAIN variables # {}
                       THEN MutationKeyword \o <<"(">> \o SortedArguments
                               \o <<")">> \o SelectionSet
                       ELSE SelectionSet
       /\ sent.variables = variables

\* C7 amended: with variables the mutation document is
\* mutation(<sorted args>)<selection-set>, the query document with mutation
\* for query; without variables it is mutation<selection-set>, where the
\* query document is the bare <selection-set>; the mapping is sent as given.
C7_MutationKeywordAlways ==
    MutateSentPlain
    => /\ sent.query = IF DOMAIN variables # {}
                       THEN AsMutation(QueryDocument)
                       ELSE MutationKeyword \o QueryDocument
       /\ sent.query = IF DOMAIN variables # {}
                       THEN MutationKeyword \o <<"(">> \o SortedArguments
                               \o <<")">> \o SelectionSet
                       ELSE MutationKeyword \o SelectionSet
       /\ sent.variables = variables

\* a mutation without variables: mutation{foo,barBaz}
C7_Witness ==
    /\ MutateSentPlain
    /\ variables = <<>>
    /\ sent.query = MutationKeyword
                      \o <<"{", "f", "o", "o", ",", "b", "a", "r", "B", "a", "z", "}">>

----------------------------------------------------------------------------
(* C8: errors beside data. *)

\* the call has returned after the transport gave data and errors
ReturnedWithDataAndErrors ==
    /\ pc = "done"
    /\ sent.made
    /\ ~resp.failed
    /\ resp.data.kind # "nil"
    /\ resp.errors

\* C8: whenever the transport gives a non-nil data payload and a non-empty
\* errors array, the call returns those errors, whatever the fold and the
\* unmarshal of the data do.
C8_ErrorsAlwaysReturned ==
    ReturnedWithDataAndErrors => ret = "errors"

----------------------------------------------------------------------------
(* C9: values whose type has no name. *)

\* a type that cannot be written as a query-language type: the nil type, or
\* a pointer to or list of such a type, or an unnamed type that is no list
RECURSIVE Unnameable(_)
Unnameable(t) ==
    \/ t.kind = "nil"
    \/ t.kind \in {"Map", "Interface"} /\ t.name = <<>>
    \/ t.kind \in {"Ptr", "Slice", "Array"} /\ Unnameable(t.elem)

\* C9: a call whose mapping holds a value of unnameable type (a repetition
\* group aside) hands no request to the transport.
C9_NoRequestForUnnameableType ==
    (pc = "done" /\ \E k \in PlainNames(variables) : Unnameable(variables[k].t))
    => ~sent.made

====
